---- MODULE Spec2Model ----
(***************************************************************************)
(* A model of clap-stdin's source selection and single-read guard:         *)
(* Source, STDIN_HAS_BEEN_READ, Source::get_value / into_reader,           *)
(* Stdin::read_string / lines, and the adapters MaybeStdinFromSource and   *)
(* MaybeStdinVec.                                                          *)
(*                                                                         *)
(* A string is a sequence of one-character strings.  The content of        *)
(* standard input is an input of the environment: it is chosen when the    *)
(* stream is read.                                                         *)
(***************************************************************************)
EXTENDS Naturals, Sequences, FiniteSets, TLC

(***************************************************************************)
(* Bounds.                                                                 *)
(***************************************************************************)
\* longest argument string / stdin content
MaxLen == 3
\* calls made in one run of the process
MaxCalls == 3
\* threads of the concurrent specification
NumThreads == 2

\* elements of a list given as a whole
MaxElems == 2

Threads == 1..NumThreads
MainThread == 1

Chars == {"a", "1", ",", "-", "\n", "\r", " "}
Strings == UNION {[1..n -> Chars] : n \in 0..MaxLen}

\* the lists of elements a caller may hold
ElemStrings == {<<>>} \cup {<<c>> : c \in Chars}
ElemSeqs == UNION {[1..n -> ElemStrings] : n \in 0..MaxElems}

\* the inputs of the concurrent specification
ConcArgs == {<<"-">>, <<"a">>}
ConcContents == {<<>>, <<"a">>}

SetMin(S) == CHOOSE x \in S : \A y \in S : x <= y
SetMax(S) == CHOOSE x \in S : \A y \in S : y <= x

(***************************************************************************)
(* Results and errors.                                                     *)
(***************************************************************************)
None == [tag |-> "None"]
Ok(k, v) == [tag |-> "Ok", kind |-> k, val |-> v]
Err(e) == [tag |-> "Err", err |-> e]

\* enum StdinError
StdInRepeatedUse == [kind |-> "StdInRepeatedUse", msg |-> ""]
StdIn(ioMsg) == [kind |-> "StdIn", msg |-> ioMsg]
FromStrError(m) == [kind |-> "FromStr", msg |-> m]
\* an error of the caller's T::from_str (not a StdinError)
CallerError(m) == [kind |-> "Caller", msg |-> m]

\* the thiserror Display of StdinError; a caller's error displays its message
Display(e) ==
  CASE e.kind = "StdInRepeatedUse" -> "stdin read from more than once"
    [] e.kind = "StdIn" -> e.msg
    [] e.kind = "FromStr" -> "unable to parse from_str: " \o e.msg
    [] e.kind = "FromSource" -> "unable to parse from_source: " \o e.msg
    [] OTHER -> e.msg

InvalidUtf8 == "stream did not contain valid UTF-8"
NotFound == "No such file or directory (os error 2)"

(***************************************************************************)
(* The string functions the adapters call.                                 *)
(***************************************************************************)
IsWhitespace(c) == c \in {" ", "\n", "\r", "\t"}

\* str::trim
Trim(s) ==
  LET keep == {i \in 1..Len(s) : ~IsWhitespace(s[i])}
  IN  IF keep = {} THEN <<>> ELSE SubSeq(s, SetMin(keep), SetMax(keep))

\* str::split(D): one piece more than there are delimiters
RECURSIVE Split(_, _)
Split(s, d) ==
  LET at == {i \in 1..Len(s) : s[i] = d}
  IN  IF at = {} THEN <<s>>
      ELSE <<SubSeq(s, 1, SetMin(at) - 1)>>
             \o Split(SubSeq(s, SetMin(at) + 1, Len(s)), d)

\* str::split_inclusive('\n'): each piece keeps its terminator, no empty last piece
RECURSIVE SplitInclusive(_, _)
SplitInclusive(s, d) ==
  LET at == {i \in 1..Len(s) : s[i] = d}
  IN  IF s = <<>> THEN <<>>
      ELSE IF at = {} THEN <<s>>
      ELSE <<SubSeq(s, 1, SetMin(at))>>
             \o SplitInclusive(SubSeq(s, SetMin(at) + 1, Len(s)), d)

StripSuffix(s, c) ==
  IF Len(s) > 0 /\ s[Len(s)] = c THEN SubSeq(s, 1, Len(s) - 1) ELSE s

\* one line of str::lines: "\n" is stripped, and a "\r" before it
LinesMap(line) ==
  IF Len(line) > 0 /\ line[Len(line)] = "\n"
    THEN StripSuffix(StripSuffix(line, "\n"), "\r")
    ELSE line

\* str::lines
Lines(s) ==
  LET pieces == SplitInclusive(s, "\n")
  IN  [i \in 1..Len(pieces) |-> LinesMap(pieces[i])]

RECURSIVE Join(_, _)
\* the strings of ss in order, sep between them
Join(ss, sep) ==
  IF ss = <<>> THEN <<>>
  ELSE IF Len(ss) = 1 THEN ss[1]
  ELSE ss[1] \o sep \o Join(Tail(ss), sep)

RECURSIVE LinesText(_)
\* the strings of ss in order, each ended by a newline
LinesText(ss) ==
  IF ss = <<>> THEN <<>> ELSE ss[1] \o <<"\n">> \o LinesText(Tail(ss))

(***************************************************************************)
(* The caller's element type T: String (from_str never fails) or u32.      *)
(***************************************************************************)
ElemTypes == {"String", "u32"}
Delims == {",", "-"}

DigitValue(c) ==
  CASE c = "0" -> 0 [] c = "1" -> 1 [] c = "2" -> 2 [] c = "3" -> 3 [] c = "4" -> 4
    [] c = "5" -> 5 [] c = "6" -> 6 [] c = "7" -> 7 [] c = "8" -> 8 [] c = "9" -> 9

IsDigit(c) == c \in {"0", "1", "2", "3", "4", "5", "6", "7", "8", "9"}

RECURSIVE Decimal(_)
Decimal(s) ==
  IF s = <<>> THEN 0
  ELSE 10 * Decimal(SubSeq(s, 1, Len(s) - 1)) + DigitValue(s[Len(s)])

\* the decimal digits of u32::MAX
U32MaxDigits == <<4, 2, 9, 4, 9, 6, 7, 2, 9, 5>>

RECURSIVE StripZeros(_)
StripZeros(s) ==
  IF Len(s) > 1 /\ s[1] = "0" THEN StripZeros(Tail(s)) ELSE s

\* whether the digit string s denotes a number above u32::MAX
ExceedsU32(s) ==
  LET d == StripZeros(s)
      differ == {i \in 1..Len(d) : DigitValue(d[i]) # U32MaxDigits[i]}
  IN  \/ Len(d) > Len(U32MaxDigits)
      \/ /\ Len(d) = Len(U32MaxDigits)
         /\ differ # {}
         /\ DigitValue(d[SetMin(differ)]) > U32MaxDigits[SetMin(differ)]

\* <u32 as FromStr>::from_str
ParseU32(s) ==
  IF s = <<>> THEN Err(CallerError("cannot parse integer from empty string"))
  ELSE IF \E i \in 1..Len(s) : ~IsDigit(s[i])
    THEN Err(CallerError("invalid digit found in string"))
  ELSE IF ExceedsU32(s)
    THEN Err(CallerError("number too large to fit in target type"))
  ELSE Ok("u32", Decimal(s))

\* T::from_str
ElemFromStr(T, s) == IF T = "String" THEN Ok("String", s) ELSE ParseU32(s)

(***************************************************************************)
(* Source and its construction (lib.rs).                                   *)
(***************************************************************************)
SourceStdin == [variant |-> "Stdin", value |-> <<>>]
SourceArg(v) == [variant |-> "Arg", value |-> v]

\* (a match on the trimmed token)
SourceFromStrTrimmed(s) == IF Trim(s) = <<"-">> THEN SourceStdin ELSE SourceArg(s)

\* <Source as FromStr>::from_str: never fails
SourceFromStr(s) == IF s = <<"-">> THEN SourceStdin ELSE SourceArg(s)

\* matches!(source, Source::Stdin(_))
IsStdinSource(src) == src.variant = "Stdin"

\* (a store of the wrong value)
StoredValueFalse == FALSE

\* the value the three guards store once the load has seen false
StoredValue == TRUE

\* (a check that never refuses)
GuardNeverRefuses(g) == FALSE

\* the value of STDIN_HAS_BEEN_READ.load(Acquire) that makes a read fail
GuardRefuses(g) == g

(***************************************************************************)
(* The adapters (maybe_stdin_from_source.rs).                              *)
(***************************************************************************)
\* (the last failing element's error instead of the first)
CollectElemsLastError(T, pieces) ==
  LET rs == [i \in 1..Len(pieces) |-> ElemFromStr(T, pieces[i])]
      bad == {i \in 1..Len(pieces) : rs[i].tag = "Err"}
  IN  IF bad = {}
        THEN Ok("Vec", [i \in 1..Len(pieces) |-> rs[i].val])
        ELSE Err(FromStrError(Display(rs[SetMax(bad)].err)))

\* .map(T::from_str ... map_err FromStr).collect::<Result<Vec<T>, _>>():
\* the first failing element's error, or every element's value
CollectElems(T, pieces) ==
  LET rs == [i \in 1..Len(pieces) |-> ElemFromStr(T, pieces[i])]
      bad == {i \in 1..Len(pieces) : rs[i].tag = "Err"}
  IN  IF bad = {}
        THEN Ok("Vec", [i \in 1..Len(pieces) |-> rs[i].val])
        ELSE Err(FromStrError(Display(rs[SetMin(bad)].err)))

\* (the delimiter used for standard input too)
VecPiecesAlwaysDelimiter(is_stdin, text, D) == Split(Trim(text), D)

\* (empty pieces left out)
VecPiecesSkipEmpty(is_stdin, text, D) ==
  LET pieces == IF is_stdin THEN Lines(Trim(text)) ELSE Split(Trim(text), D)
  IN  SelectSeq(pieces, LAMBDA p : p # <<>>)

\* (the value cut up without being trimmed)
VecPiecesUntrimmed(is_stdin, text, D) ==
  IF is_stdin THEN Lines(text) ELSE Split(text, D)

\* the pieces MaybeStdinVec::from_str cuts the value into
VecPieces(is_stdin, text, D) ==
  IF is_stdin THEN Lines(Trim(text)) ELSE Split(Trim(text), D)

\* (the provenance flag left false)
AdapterNotStdin(type, inner, is_stdin) ==
  [type |-> type, inner |-> inner, is_stdin |-> FALSE]

\* struct MaybeStdinFromSource<T> / struct MaybeStdinVec<T, D>
Adapter(type, inner, is_stdin) ==
  [type |-> type, inner |-> inner, is_stdin |-> is_stdin]

\* (every failure wrapped as FromStr)
MaybeStdinVecWrapsAll(src, value, T, D) ==
  LET is_stdin == IsStdinSource(src)
      parsed == CollectElems(T, VecPieces(is_stdin, value.val, D))
  IN  IF value.tag = "Err" THEN Err(FromStrError(Display(value.err)))
      ELSE IF parsed.tag = "Err" THEN parsed
      ELSE Ok("Adapter", Adapter("MaybeStdinVec", parsed.val, is_stdin))

\* MaybeStdinVec::<T, D>::from_str after Source::from_str, given what
\* source.get_value() returned
MaybeStdinVecFromStr(src, value, T, D) ==
  LET is_stdin == IsStdinSource(src)
      parsed == CollectElems(T, VecPieces(is_stdin, value.val, D))
  IN  IF value.tag = "Err" THEN value
      ELSE IF parsed.tag = "Err" THEN parsed
      ELSE Ok("Adapter", Adapter("MaybeStdinVec", parsed.val, is_stdin))

\* panic!("Failed to parse input: {error}")
Panic(m) == [tag |-> "Panic", msg |-> m]

\* (a failure returned as an error value)
FromIterReturnsErr(T, items) ==
  LET rs == [i \in 1..Len(items) |-> ElemFromStr(T, items[i])]
      bad == {i \in 1..Len(items) : rs[i].tag = "Err"}
  IN  IF bad = {}
        THEN Ok("Adapter", Adapter("MaybeStdinVec",
                                   [i \in 1..Len(items) |-> rs[i].val], FALSE))
        ELSE Err(FromStrError(Display(rs[SetMin(bad)].err)))

\* <MaybeStdinVec<T, D> as FromIterator<String>>::from_iter
FromIterOutcome(T, items) ==
  LET rs == [i \in 1..Len(items) |-> ElemFromStr(T, items[i])]
      bad == {i \in 1..Len(items) : rs[i].tag = "Err"}
  IN  IF bad = {}
        THEN Ok("Adapter", Adapter("MaybeStdinVec",
                                   [i \in 1..Len(items) |-> rs[i].val], FALSE))
        ELSE Panic("Failed to parse input: " \o Display(rs[SetMin(bad)].err))

\* <Fruits as FromSource>::from_source (examples/from_source.rs), given what
\* stdin.lines() returned and what iterating the lines read
FruitsFromSource(src, lines, inp) ==
  IF IsStdinSource(src)
    THEN IF lines.tag = "Err" THEN lines
         ELSE IF ~inp.utf8 THEN Err(StdIn(InvalidUtf8))
         ELSE Ok("Fruits", Lines(inp.text))
    ELSE Ok("Fruits", Split(src.value, ","))

\* a from_source that does not touch the Stdin it is given: it answers "-"
\* for Source::Stdin and the argument for Source::Arg
TokenFromSource(src) ==
  Ok("Token", IF IsStdinSource(src) THEN <<"-">> ELSE src.value)

\* (the routine's error passed on as it is)
MaybeStdinFromSourceKeepsKind(src, made) ==
  IF made.tag = "Err"
    THEN made
    ELSE Ok("Adapter", Adapter("MaybeStdinFromSource", made.val, IsStdinSource(src)))

\* MaybeStdinFromSource::<T>::from_str after Source::from_str, given what
\* T::from_source returned
MaybeStdinFromSourceFromStr(src, made) ==
  IF made.tag = "Err"
    THEN Err(FromStrError(Display(made.err)))
    ELSE Ok("Adapter", Adapter("MaybeStdinFromSource", made.val, IsStdinSource(src)))

(***************************************************************************)
(* Calls.                                                                  *)
(***************************************************************************)
AdapterFns == {"MaybeStdinFromSource", "MaybeStdinVec"}
StdinFns == {"read_string", "lines"}

NoCall == [fn |-> "none", arg |-> <<>>, T |-> "String", D |-> ",", items |-> <<>>]

\* the calls a thread may make with the argument strings Args
CallsOver(Args) ==
  {[fn |-> f, arg |-> a, T |-> "String", D |-> ",", items |-> <<>>] :
      f \in {"get_value", "into_reader"}, a \in Args}
  \cup {[fn |-> "MaybeStdinFromSource", arg |-> a, T |-> "Fruits", D |-> ",",
          items |-> <<>>] : a \in Args}
  \cup {[fn |-> "MaybeStdinFromSource", arg |-> a, T |-> "Token", D |-> ",",
          items |-> <<>>] : a \in Args \cap ConcArgs}
  \cup {[fn |-> f, arg |-> <<"-">>, T |-> "String", D |-> ",", items |-> <<>>] :
      f \in StdinFns}
  \cup {[fn |-> "MaybeStdinVec", arg |-> a, T |-> T, D |-> D, items |-> <<>>] :
      a \in Args, T \in ElemTypes, D \in Delims}

\* the direct constructions a thread may make from the sequences Seqs
FromIterCalls(Seqs) ==
  {[fn |-> "from_iter", arg |-> <<>>, T |-> T, D |-> ",", items |-> es] :
      es \in Seqs, T \in ElemTypes}

\* (every parse of "-" taken to check the guard)
ChecksGuardAlways(c) == SourceFromStr(c.arg) = SourceStdin \/ c.fn \in StdinFns

\* whether the call reaches a check of the guard: on Source::Stdin, in
\* into_reader, get_value and Stdin's methods, and, for MaybeStdinFromSource,
\* only in a from_source that calls them
ChecksGuard(c) ==
  \/ c.fn \in StdinFns
  \/ /\ SourceFromStr(c.arg) = SourceStdin
     /\ (c.fn = "MaybeStdinFromSource" => c.T = "Fruits")

\* the Source a call works on: Stdin's methods work on Source::Stdin(Stdin)
SourceOf(c) == IF c.fn \in StdinFns THEN SourceStdin ELSE SourceFromStr(c.arg)

\* whether the call reads the stream before it returns (get_value's
\* read_to_string, Fruits' collect of the lines)
ReadsStream(c) ==
  c.fn \in {"get_value", "read_string", "MaybeStdinVec", "MaybeStdinFromSource"}

\* how a call that passed the guard went on: it read the stream, its read
\* failed, or it handed the stream out unread
HowFinished(c, inp) ==
  IF ~ReadsStream(c) THEN "unread" ELSE IF inp.utf8 THEN "read" ELSE "io_error"

NoInput == [text |-> <<>>, utf8 |-> TRUE]

\* what a read of standard input may deliver
Inputs(Contents) ==
  {[text |-> c, utf8 |-> TRUE] : c \in Contents} \cup {[text |-> <<>>, utf8 |-> FALSE]}

\* what the guarded function itself returns on the stdin path:
\* get_value (lib.rs 62-71), into_reader (45-51), Stdin::lines (104-109)
StdinOutcome(c, refused, inp) ==
  IF refused THEN Err(StdInRepeatedUse)
  ELSE CASE c.fn \in {"get_value", "read_string", "MaybeStdinVec"} ->
              IF inp.utf8 THEN Ok("String", inp.text) ELSE Err(StdIn(InvalidUtf8))
         [] c.fn = "into_reader" -> Ok("Reader", [reader |-> "stdin", path |-> <<>>])
         [] OTHER -> Ok("Lines", "StdinLock")

\* what the called function returns, given its guarded function's outcome
Returned(c, src, prim, inp) ==
  CASE c.fn = "MaybeStdinVec" -> MaybeStdinVecFromStr(src, prim, c.T, c.D)
    [] c.fn = "MaybeStdinFromSource" ->
         MaybeStdinFromSourceFromStr(src, IF c.T = "Token"
                                            THEN TokenFromSource(src)
                                            ELSE FruitsFromSource(src, prim, inp))
    [] OTHER -> prim

\* what the called function returns on an Arg source; opened says
\* whether File::open succeeds
ArgOutcome(c, src, opened) ==
  CASE c.fn = "get_value" -> Ok("String", src.value)
    [] c.fn = "into_reader" ->
         IF opened THEN Ok("Reader", [reader |-> "file", path |-> src.value])
                   ELSE Err(StdIn(NotFound))
    [] OTHER -> Returned(c, src, Ok("String", src.value), NoInput)

(***************************************************************************)
(* State.                                                                  *)
(***************************************************************************)
VARIABLES
  guard,        \* STDIN_HAS_BEEN_READ
  stdinReads,   \* how many calls have read the stream
  attempts,     \* the outcome of each guard check, in order
  finished,     \* how each call that passed the guard went on, in order
  stdinParsed,  \* whether an adapter parse of "-" through the guard has succeeded
  ncalls,       \* calls made so far
  pc,           \* where each thread is in its call
  call,         \* each thread's call
  source,       \* each thread's Source
  input,        \* what each thread's call read from the stream
  result,       \* what each thread's call returned
  ret,          \* what the last accessor on the returned adapter returned
  scenario,     \* the list of elements the run gives in both shapes, with T and D
  kept          \* an earlier call and what it returned, kept by the caller

vars == <<guard, stdinReads, attempts, finished, stdinParsed, ncalls, pc, call, source,
          input, result, ret, scenario, kept>>

NoScenario == [items |-> <<>>, T |-> "String", D |-> ","]

\* the process starts: the guard is false, nothing was called
Start ==
  /\ guard = FALSE
  /\ stdinReads = 0
  /\ attempts = <<>>
  /\ finished = <<>>
  /\ stdinParsed = FALSE
  /\ ncalls = 0
  /\ pc = [t \in Threads |-> "idle"]
  /\ call = [t \in Threads |-> NoCall]
  /\ source = [t \in Threads |-> SourceArg(<<>>)]
  /\ input = [t \in Threads |-> NoInput]
  /\ result = [t \in Threads |-> None]
  /\ ret = [t \in Threads |-> None]
  /\ kept = None

Init == Start /\ scenario = NoScenario

\* the call of thread t returns r
Complete(t, r) ==
  /\ result' = [result EXCEPT ![t] = r]
  /\ pc' = [pc EXCEPT ![t] = "idle"]
  /\ stdinParsed' = (stdinParsed \/ (/\ call[t].fn \in AdapterFns
                                      /\ ChecksGuard(call[t])
                                      /\ r.tag = "Ok"))

\* a thread calls one of the library's functions; Source::from_str runs
CallAmong(t, Calls) ==
  /\ UNCHANGED <<scenario, kept>>
  /\ pc[t] = "idle"
  /\ result[t] = None
  /\ ncalls < MaxCalls
  /\ \E c \in Calls :
       /\ call' = [call EXCEPT ![t] = c]
       /\ source' = [source EXCEPT ![t] = SourceOf(c)]
       /\ pc' = [pc EXCEPT ![t] = IF ChecksGuard(c) THEN "load"
                                  ELSE IF IsStdinSource(SourceOf(c)) THEN "direct"
                                  ELSE "arg"]
  /\ ncalls' = ncalls + 1
  /\ input' = [input EXCEPT ![t] = NoInput]
  /\ result' = [result EXCEPT ![t] = None]
  /\ ret' = [ret EXCEPT ![t] = None]
  /\ UNCHANGED <<guard, stdinReads, attempts, finished, stdinParsed>>

Call(t, Args) == CallAmong(t, CallsOver(Args))

\* the caller keeps the call and what it returned, in place of an earlier one
Keep(t) ==
  /\ pc[t] = "idle"
  /\ result[t] # None
  /\ kept' = [call |-> call[t], source |-> source[t], input |-> input[t],
              result |-> result[t]]
  /\ call' = [call EXCEPT ![t] = NoCall]
  /\ source' = [source EXCEPT ![t] = SourceArg(<<>>)]
  /\ input' = [input EXCEPT ![t] = NoInput]
  /\ result' = [result EXCEPT ![t] = None]
  /\ ret' = [ret EXCEPT ![t] = None]
  /\ UNCHANGED <<guard, stdinReads, attempts, finished, stdinParsed, ncalls, pc,
                 scenario>>

\* the caller lets go of what its call returned
Drop(t) ==
  /\ UNCHANGED <<scenario, kept>>
  /\ pc[t] = "idle"
  /\ result[t] # None
  /\ call' = [call EXCEPT ![t] = NoCall]
  /\ source' = [source EXCEPT ![t] = SourceArg(<<>>)]
  /\ input' = [input EXCEPT ![t] = NoInput]
  /\ result' = [result EXCEPT ![t] = None]
  /\ ret' = [ret EXCEPT ![t] = None]
  /\ UNCHANGED <<guard, stdinReads, attempts, finished, stdinParsed, ncalls, pc>>

\* (the stream read before the guard is looked at)
GuardLoadAfterRead(t) ==
  /\ UNCHANGED <<scenario, kept>>
  /\ pc[t] = "load"
  /\ stdinReads' = IF ReadsStream(call[t]) THEN stdinReads + 1 ELSE stdinReads
  /\ IF GuardRefuses(guard)
       THEN /\ attempts' = Append(attempts, "StdInRepeatedUse")
            /\ Complete(t, Returned(call[t], source[t],
                                    StdinOutcome(call[t], TRUE, NoInput), NoInput))
       ELSE /\ attempts' = Append(attempts, "Passed")
            /\ pc' = [pc EXCEPT ![t] = "store"]
            /\ UNCHANGED <<result, stdinParsed>>
  /\ UNCHANGED <<guard, finished, ncalls, call, source, input, ret>>

\* if STDIN_HAS_BEEN_READ.load(Acquire) { return Err(StdInRepeatedUse) }
GuardLoad(t) ==
  /\ UNCHANGED <<scenario, kept>>
  /\ pc[t] = "load"
  /\ IF GuardRefuses(guard)
       THEN /\ attempts' = Append(attempts, "StdInRepeatedUse")
            /\ Complete(t, Returned(call[t], source[t],
                                    StdinOutcome(call[t], TRUE, NoInput), NoInput))
       ELSE /\ attempts' = Append(attempts, "Passed")
            /\ pc' = [pc EXCEPT ![t] = "store"]
            /\ UNCHANGED <<result, stdinParsed>>
  /\ UNCHANGED <<guard, stdinReads, finished, ncalls, call, source, input, ret>>

\* (the store left out)
GuardStoreSkipped(t) ==
  /\ UNCHANGED <<scenario, kept>>
  /\ pc[t] = "store"
  /\ pc' = [pc EXCEPT ![t] = "finish"]
  /\ UNCHANGED <<guard, stdinReads, attempts, finished, stdinParsed, ncalls, call,
                 source, input, result, ret>>

\* STDIN_HAS_BEEN_READ.store(true, SeqCst)
GuardStore(t) ==
  /\ UNCHANGED <<scenario, kept>>
  /\ pc[t] = "store"
  /\ guard' = StoredValue
  /\ pc' = [pc EXCEPT ![t] = "finish"]
  /\ UNCHANGED <<stdinReads, attempts, finished, stdinParsed, ncalls, call, source,
                 input, result, ret>>

\* the rest of the stdin path: get_value and Fruits read the stream to its
\* end, into_reader and Stdin::lines hand out the stream unread
Finish(t, Contents) ==
  /\ UNCHANGED <<scenario, kept>>
  /\ pc[t] = "finish"
  /\ \E inp \in (IF ~ReadsStream(call[t]) THEN {NoInput}
                 ELSE IF stdinReads > 0 THEN {NoInput}
                 ELSE Inputs(Contents)) :
       /\ input' = [input EXCEPT ![t] = inp]
       /\ finished' = Append(finished, HowFinished(call[t], inp))
       /\ Complete(t, Returned(call[t], source[t],
                               StdinOutcome(call[t], FALSE, inp), inp))
  /\ stdinReads' = IF ReadsStream(call[t]) THEN stdinReads + 1 ELSE stdinReads
  /\ UNCHANGED <<guard, attempts, ncalls, call, source, ret>>

\* (the guard set on the Arg path too)
ArgPathSetsGuard(t) ==
  /\ UNCHANGED <<scenario, kept>>
  /\ pc[t] = "arg"
  /\ guard' = TRUE
  /\ \E opened \in (IF call[t].fn = "into_reader" THEN BOOLEAN ELSE {TRUE}) :
       Complete(t, ArgOutcome(call[t], source[t], opened))
  /\ UNCHANGED <<stdinReads, attempts, finished, ncalls, call, source, input, ret>>

\* the Arg path: no guard
ArgPath(t) ==
  /\ UNCHANGED <<scenario, kept>>
  /\ pc[t] = "arg"
  /\ \E opened \in (IF call[t].fn = "into_reader" THEN BOOLEAN ELSE {TRUE}) :
       Complete(t, ArgOutcome(call[t], source[t], opened))
  /\ UNCHANGED <<guard, stdinReads, attempts, finished, ncalls, call, source, input,
                 ret>>

\* MaybeStdinFromSource::from_str on Source::Stdin with a from_source that
\* does not touch its Stdin: no guard, no read
FromSourceDirect(t) ==
  /\ UNCHANGED <<scenario, kept>>
  /\ pc[t] = "direct"
  /\ Complete(t, Returned(call[t], source[t], None, NoInput))
  /\ UNCHANGED <<guard, stdinReads, attempts, finished, ncalls, call, source, input,
                 ret>>

\* MaybeStdinVec is collected from a sequence of strings; a failing element
\* panics and the thread does not go on
FromIter(t, Seqs) ==
  /\ UNCHANGED <<scenario, kept>>
  /\ pc[t] = "idle"
  /\ result[t] = None
  /\ ncalls < MaxCalls
  /\ \E c \in FromIterCalls(Seqs) :
       /\ call' = [call EXCEPT ![t] = c]
       /\ result' = [result EXCEPT ![t] = FromIterOutcome(c.T, c.items)]
       /\ pc' = [pc EXCEPT ![t] = IF FromIterOutcome(c.T, c.items).tag = "Panic"
                                    THEN "panicked" ELSE "idle"]
  /\ ncalls' = ncalls + 1
  /\ source' = [source EXCEPT ![t] = SourceArg(<<>>)]
  /\ input' = [input EXCEPT ![t] = NoInput]
  /\ ret' = [ret EXCEPT ![t] = None]
  /\ UNCHANGED <<guard, stdinReads, attempts, finished, stdinParsed>>

HoldsAdapter(t) ==
  pc[t] = "idle" /\ result[t].tag = "Ok" /\ result[t].kind = "Adapter"

\* MaybeStdinFromSource::is_stdin / MaybeStdinVec::is_stdin
IsStdin(t) ==
  /\ UNCHANGED <<scenario, kept>>
  /\ HoldsAdapter(t)
  /\ ret' = [ret EXCEPT ![t] = Ok("bool", result[t].val.is_stdin)]
  /\ UNCHANGED <<guard, stdinReads, attempts, finished, stdinParsed, ncalls, pc, call, source,
                 input, result>>

\* Deref::deref: &self.inner
Deref(t) ==
  /\ UNCHANGED <<scenario, kept>>
  /\ HoldsAdapter(t)
  /\ ret' = [ret EXCEPT ![t] = Ok("ref", result[t].val.inner)]
  /\ UNCHANGED <<guard, stdinReads, attempts, finished, stdinParsed, ncalls, pc, call, source,
                 input, result>>

\* DerefMut::deref_mut: &mut self.inner, through which the caller clears it
DerefMut(t) ==
  /\ UNCHANGED <<scenario, kept>>
  /\ HoldsAdapter(t)
  /\ result' = [result EXCEPT ![t].val.inner = <<>>]
  /\ ret' = [ret EXCEPT ![t] = Ok("mut", <<>>)]
  /\ UNCHANGED <<guard, stdinReads, attempts, finished, stdinParsed, ncalls, pc, call, source,
                 input>>

\* into_inner(self): the adapter is consumed
IntoInner(t) ==
  /\ UNCHANGED <<scenario, kept>>
  /\ HoldsAdapter(t)
  /\ result' = [result EXCEPT ![t] = Ok("Inner", result[t].val.inner)]
  /\ ret' = [ret EXCEPT ![t] = None]
  /\ UNCHANGED <<guard, stdinReads, attempts, finished, stdinParsed, ncalls, pc, call, source,
                 input>>

\* #[derive(Clone)]
Clone(t) ==
  /\ UNCHANGED <<scenario, kept>>
  /\ HoldsAdapter(t)
  /\ ret' = [ret EXCEPT ![t] = Ok("Adapter", result[t].val)]
  /\ UNCHANGED <<guard, stdinReads, attempts, finished, stdinParsed, ncalls, pc, call, source,
                 input, result>>

(***************************************************************************)
(* Spec: one thread makes the calls, one after the other, with every       *)
(* string up to MaxLen as argument and as content of standard input.       *)
(***************************************************************************)
Next ==
  \/ Call(MainThread, Strings)
  \/ GuardLoad(MainThread)
  \/ GuardStore(MainThread)
  \/ Finish(MainThread, Strings)
  \/ ArgPath(MainThread)
  \/ FromSourceDirect(MainThread)
  \/ FromIter(MainThread, ElemSeqs)
  \/ Drop(MainThread)

Spec == Init /\ [][Next]_vars

(***************************************************************************)
(* UseSpec: one thread makes the calls with a few arguments and uses the   *)
(* adapters it gets through their accessors.                               *)
(***************************************************************************)
UseArgs == {<<"-">>, <<"a">>, <<" ", "-">>, <<"a", ",", "1">>}
UseContents == {<<>>, <<"a", "\n", "1">>}
UseSeqs == {<<>>, << <<"-">>, <<"a">> >>}

UseNext ==
  \/ Call(MainThread, UseArgs)
  \/ GuardLoad(MainThread)
  \/ GuardStore(MainThread)
  \/ Finish(MainThread, UseContents)
  \/ ArgPath(MainThread)
  \/ FromSourceDirect(MainThread)
  \/ FromIter(MainThread, UseSeqs)
  \/ IsStdin(MainThread)
  \/ Deref(MainThread)
  \/ DerefMut(MainThread)
  \/ IntoInner(MainThread)
  \/ Clone(MainThread)
  \/ Drop(MainThread)

UseSpec == Init /\ [][UseNext]_vars

(***************************************************************************)
(* ConcSpec: the threads make their calls concurrently; a load and a       *)
(* store of the guard are separate steps.                                  *)
(***************************************************************************)
ConcNext ==
  \E t \in Threads :
    \/ Call(t, ConcArgs)
    \/ GuardLoad(t)
    \/ GuardStore(t)
    \/ Finish(t, ConcContents)
    \/ ArgPath(t)
    \/ FromSourceDirect(t)
    \/ Drop(t)

ConcSpec == Init /\ [][ConcNext]_vars

(***************************************************************************)
(* PairSpec: one thread gives one list of elements to MaybeStdinVec in     *)
(* both shapes, joined by D as an argument and as lines of standard input, *)
(* and keeps what it got.                                                  *)
(***************************************************************************)
PairInit ==
  /\ Start
  /\ scenario \in {[items |-> es, T |-> T, D |-> D] :
                      es \in ElemSeqs, T \in ElemTypes, D \in Delims}

\* the two calls of the scenario
PairCalls ==
  {[fn |-> "MaybeStdinVec", arg |-> a, T |-> scenario.T, D |-> scenario.D,
    items |-> <<>>] :
      a \in {<<"-">>, Join(scenario.items, <<scenario.D>>)}}

PairNext ==
  \/ CallAmong(MainThread, PairCalls)
  \/ GuardLoad(MainThread)
  \/ GuardStore(MainThread)
  \/ Finish(MainThread, {LinesText(scenario.items)})
  \/ ArgPath(MainThread)
  \/ Keep(MainThread)

PairSpec == PairInit /\ [][PairNext]_vars

(***************************************************************************)
(* Properties.                                                             *)
(***************************************************************************)
M == MainThread

\* thread t has come back from a call on the stdin path
ReturnedFromStdin(t) ==
  pc[t] = "idle" /\ result[t] # None /\ ChecksGuard(call[t])

\* the step is thread t's check of the guard
LoadStep(t) == pc[t] = "load" /\ pc'[t] # "load"

Passes == {i \in 1..Len(attempts) : attempts[i] = "Passed"}

\* C1: in a sequential run the first stdin read attempt passes the guard and
\* every later one fails with StdInRepeatedUse, whichever of get_value,
\* into_reader, read_string and lines makes it; at most one attempt passes.
C1_FirstPassesRestFail ==
  /\ \A i \in 1..Len(attempts) :
       attempts[i] = (IF i = 1 THEN "Passed" ELSE "StdInRepeatedUse")
  /\ Cardinality(Passes) <= 1
  /\ (/\ ReturnedFromStdin(M)
      /\ call[M].fn \notin AdapterFns
      /\ Len(attempts) >= 2) => result[M] = Err(StdInRepeatedUse)

C1_Witness ==
  /\ attempts = <<"Passed", "StdInRepeatedUse", "StdInRepeatedUse">>
  /\ call[M].fn = "lines"
  /\ result[M] = Err(StdInRepeatedUse)

\* C2: when threads attempt stdin reads concurrently, exactly one of them
\* passes the guard; no two callers both pass it.
C2_AtMostOnePasses == Cardinality(Passes) <= 1

\* C3, as claimed: once a stdin-sourced adapter parse has succeeded, a second
\* one fails with the error kind StdInRepeatedUse, whichever adapter makes it.
C3_SecondParseRepeatedUse ==
  [][(stdinParsed /\ call[M].fn \in AdapterFns /\ LoadStep(M))
       => (result'[M].tag = "Err" /\ result'[M].err.kind = "StdInRepeatedUse")]_vars

\* C3, amended: once an adapter parse of "-" that read standard input has
\* succeeded, a second one that comes to the guard fails: MaybeStdinVec
\* returns StdInRepeatedUse, and MaybeStdinFromSource (whose from_source reads
\* through Stdin::lines) returns FromStr carrying StdInRepeatedUse's message.
C3_SecondParseFails ==
  [][(stdinParsed /\ call[M].fn \in AdapterFns /\ LoadStep(M))
       => result'[M] = (IF call[M].fn = "MaybeStdinVec"
                          THEN Err(StdInRepeatedUse)
                          ELSE Err(FromStrError("stdin read from more than once")))]_vars

C3_Witness ==
  /\ stdinParsed
  /\ pc[M] = "idle"
  /\ call[M].fn = "MaybeStdinFromSource"
  /\ result[M] = Err(FromStrError("stdin read from more than once"))

\* C4: the guard starts false and no step sets it back to false, and every
\* stdin read attempted after the first attempt finds it set and fails.
C4_GuardMonotonic ==
  /\ guard = FALSE
  /\ [][/\ guard => guard'
        /\ (attempts # <<>> /\ LoadStep(M))
             => (guard /\ pc'[M] = "idle" /\ result'[M].tag = "Err")]_vars

C4_Witness ==
  /\ guard
  /\ attempts = <<"Passed", "StdInRepeatedUse">>
  /\ ncalls = 3
  /\ ~IsStdinSource(source[M])
  /\ result[M].tag = "Ok"

\* C5: the first stdin read attempt sets the guard whether or not its read
\* succeeds: after a get_value whose read failed, or after into_reader or
\* lines handed the stream out unread, the guard is true and every later
\* attempt fails with StdInRepeatedUse.
C5_GuardSetWithoutRead ==
  (finished # <<>> /\ finished[1] \in {"io_error", "unread"})
    => /\ guard
       /\ \A i \in 2..Len(attempts) : attempts[i] = "StdInRepeatedUse"
       /\ (ReturnedFromStdin(M) /\ Len(attempts) >= 2) => result[M].tag = "Err"

C5_Witness ==
  /\ finished = <<"io_error">>
  /\ stdinReads = 1
  /\ Len(attempts) = 2
  /\ call[M].fn = "read_string"
  /\ result[M] = Err(StdInRepeatedUse)

\* C6: Source::from_str is total and exact: the Source is Stdin exactly when
\* the token is "-", and otherwise Arg holding the token unchanged.
C6_SourceExact ==
  \A t \in Threads :
    call[t].fn \in {"get_value", "into_reader", "MaybeStdinFromSource", "MaybeStdinVec"}
      => /\ source[t].variant \in {"Stdin", "Arg"}
         /\ (source[t].variant = "Stdin") <=> (call[t].arg = <<"-">>)
         /\ (source[t].variant = "Arg") => (source[t].value = call[t].arg)
         /\ (pc[t] = "idle" /\ result[t] # None /\ call[t].fn = "get_value"
               /\ call[t].arg # <<"-">>) => result[t] = Ok("String", call[t].arg)

C6_Witness ==
  /\ call[M].fn = "get_value"
  /\ call[M].arg = <<" ", "-">>
  /\ source[M].variant = "Arg"
  /\ result[M] = Ok("String", <<" ", "-">>)

\* C7: an adapter's is_stdin is true exactly when its token was "-", and it
\* stays so through is_stdin, deref, deref_mut and clone, until into_inner
\* consumes the adapter.
C7_IsStdinFixed ==
  \A t \in Threads :
    HoldsAdapter(t)
      => /\ result[t].val.is_stdin <=> (call[t].arg = <<"-">>)
         /\ (ret[t].tag = "Ok" /\ ret[t].kind = "bool")
              => (ret[t].val <=> (call[t].arg = <<"-">>))
         /\ (ret[t].tag = "Ok" /\ ret[t].kind = "Adapter")
              => (ret[t].val.is_stdin <=> (call[t].arg = <<"-">>))

C7_Witness ==
  /\ HoldsAdapter(M)
  /\ call[M].arg = <<"-">>
  /\ result[M].val.is_stdin
  /\ ret[M] = Ok("mut", <<>>)

Count(c, s) == Cardinality({i \in 1..Len(s) : s[i] = c})

RECURSIVE DropCrBeforeLf(_)
\* s with every "\r\n" turned into "\n"
DropCrBeforeLf(s) ==
  IF Len(s) < 2 THEN s
  ELSE IF s[1] = "\r" /\ s[2] = "\n" THEN DropCrBeforeLf(Tail(s))
  ELSE <<s[1]>> \o DropCrBeforeLf(Tail(s))

\* thread t holds a MaybeStdinVec as from_str built it
HoldsFreshVec(t) ==
  /\ HoldsAdapter(t)
  /\ call[t].fn = "MaybeStdinVec"
  /\ result[t].val.type = "MaybeStdinVec"
  /\ ret[t] = None

\* C8: MaybeStdinVec splits an argument only at the delimiter D (a newline
\* in it does not split) and standard input only at line ends (a D in it
\* does not split), and keeps the elements in input order.
C8_SplitBySource ==
  \A t \in Threads :
    HoldsFreshVec(t) =>
      LET inner == result[t].val.inner
          D == call[t].D
          text == IF IsStdinSource(source[t]) THEN Trim(input[t].text)
                                              ELSE Trim(call[t].arg)
      IN  IF IsStdinSource(source[t])
            THEN /\ Len(inner) = IF text = <<>> THEN 0 ELSE Count("\n", text) + 1
                 /\ call[t].T = "String" =>
                      /\ \A i \in 1..Len(inner) : Count("\n", inner[i]) = 0
                      /\ Count(D, Join(inner, <<"\n">>)) = Count(D, text)
                      /\ Join(inner, <<"\n">>) = DropCrBeforeLf(text)
            ELSE /\ Len(inner) = Count(D, text) + 1
                 /\ call[t].T = "String" =>
                      /\ \A i \in 1..Len(inner) : Count(D, inner[i]) = 0
                      /\ Join(inner, <<D>>) = text

C8_Witness ==
  /\ HoldsFreshVec(M)
  /\ IsStdinSource(source[M])
  /\ call[M].D = ","
  /\ input[M].text = <<"a", ",", "1">>
  /\ result[M].val.inner = << <<"a", ",", "1">> >>

\* whether u32's from_str takes the piece
IsNumber(p) == p # <<>> /\ \A i \in 1..Len(p) : p[i] \in {"0", "1", "2", "3", "4", "5", "6", "7", "8", "9"}

\* C9: when an element fails T::from_str, MaybeStdinVec::from_str returns
\* FromStr carrying the message of the first failing element in input
\* order, and no adapter.
C9_FailFast ==
  \A t \in Threads :
    (pc[t] = "idle" /\ result[t] # None /\ call[t].fn = "MaybeStdinVec"
       /\ call[t].T = "u32" /\ input[t].utf8
       /\ (IsStdinSource(source[t]) => attempts[Len(attempts)] = "Passed")) =>
      LET pieces == VecPieces(IsStdinSource(source[t]),
                              IF IsStdinSource(source[t]) THEN input[t].text
                                                          ELSE call[t].arg,
                              call[t].D)
          bad == {i \in 1..Len(pieces) : ~IsNumber(pieces[i])}
      IN  bad # {} =>
            result[t] = Err(FromStrError(
              IF pieces[SetMin(bad)] = <<>>
                THEN "cannot parse integer from empty string"
                ELSE "invalid digit found in string"))

C9_Witness ==
  /\ pc[M] = "idle"
  /\ call[M].fn = "MaybeStdinVec"
  /\ call[M].T = "u32"
  /\ call[M].arg = <<"1", ",", "a">>
  /\ call[M].D = ","
  /\ result[M] = Err(FromStrError("invalid digit found in string"))

\* thread t's adapter parse has failed
AdapterFailed(t) ==
  pc[t] = "idle" /\ call[t].fn \in AdapterFns /\ result[t].tag = "Err"

\* thread t's call was refused by the guard
Refused(t) ==
  ChecksGuard(call[t]) /\ attempts # <<>>
    /\ attempts[Len(attempts)] = "StdInRepeatedUse"

\* C10, as claimed: every failure an adapter's from_str returns has the
\* kind FromStr.
C10_AllFromStr ==
  \A t \in Threads : AdapterFailed(t) => result[t].err.kind = "FromStr"

\* C10, amended: MaybeStdinFromSource::from_str returns every failure as
\* FromStr carrying the lower failure's message; MaybeStdinVec::from_str
\* returns an element's conversion failure as FromStr carrying its message,
\* but a consumed stdin as StdInRepeatedUse and an I/O failure as StdIn.
C10_WrappedByAdapter ==
  \A t \in Threads :
    AdapterFailed(t) =>
      LET e == result[t].err
      IN  IF call[t].fn = "MaybeStdinFromSource"
            THEN e = FromStrError(IF Refused(t) THEN "stdin read from more than once"
                                               ELSE InvalidUtf8)
          ELSE IF Refused(t) THEN e = StdInRepeatedUse
          ELSE IF ~input[t].utf8 THEN e = StdIn(InvalidUtf8)
          ELSE /\ e.kind = "FromStr"
               /\ e.msg \in {"cannot parse integer from empty string",
                             "invalid digit found in string"}

C10_Witness ==
  /\ pc[M] = "idle"
  /\ call[M].fn = "MaybeStdinVec"
  /\ ~input[M].utf8
  /\ result[M] = Err(StdIn(InvalidUtf8))

\* the step is thread t's work on an Arg source
ArgStep(t) == pc[t] = "arg" /\ pc'[t] # "arg"

\* C11: a call on an Arg source neither reads nor writes the guard and does
\* no stdin I/O: get_value returns the value as it is, into_reader opens the
\* path or fails with an I/O error, and an argument-sourced parse of strings
\* succeeds, before and after standard input was consumed.
C11_ArgLeavesGuard ==
  [][ArgStep(M) =>
       /\ guard' = guard
       /\ attempts' = attempts
       /\ stdinReads' = stdinReads
       /\ finished' = finished
       /\ call[M].fn = "get_value" => result'[M] = Ok("String", call[M].arg)
       /\ call[M].fn = "into_reader" =>
            result'[M] \in {Ok("Reader", [reader |-> "file", path |-> call[M].arg]),
                            Err(StdIn(NotFound))}
       /\ (call[M].fn \in AdapterFns /\ call[M].T # "u32") =>
            (result'[M].tag = "Ok" /\ result'[M].kind = "Adapter"
               /\ ~result'[M].val.is_stdin)]_vars

C11_Witness ==
  /\ guard
  /\ attempts = <<"Passed">>
  /\ ncalls = 3
  /\ pc[M] = "idle"
  /\ call[M].fn = "MaybeStdinVec"
  /\ call[M].arg = <<"a", ",", "a">>
  /\ result[M].tag = "Ok"
  /\ ~result[M].val.is_stdin

Blank(c) == c \in {" ", "\n", "\r"}

RECURSIVE StripLeft(_)
StripLeft(s) == IF s # <<>> /\ Blank(s[1]) THEN StripLeft(Tail(s)) ELSE s

RECURSIVE StripRight(_)
StripRight(s) ==
  IF s # <<>> /\ Blank(s[Len(s)]) THEN StripRight(SubSeq(s, 1, Len(s) - 1)) ELSE s

\* C12: MaybeStdinVec read from standard input drops the blanks and newlines
\* around the whole content before it cuts it into lines: content ending in
\* newlines yields exactly the lines before them, with no empty first or
\* last element.
C12_StdinTrimmed ==
  \A t \in Threads :
    (HoldsFreshVec(t) /\ IsStdinSource(source[t])) =>
      LET inner == result[t].val.inner
          core == StripRight(StripLeft(input[t].text))
      IN  /\ Len(inner) = IF core = <<>> THEN 0 ELSE Count("\n", core) + 1
          /\ call[t].T = "String" =>
               /\ Join(inner, <<"\n">>) = DropCrBeforeLf(core)
               /\ inner # <<>> => (inner[1] # <<>> /\ inner[Len(inner)] # <<>>)

C12_Witness ==
  /\ HoldsFreshVec(M)
  /\ IsStdinSource(source[M])
  /\ input[M].text = <<"a", "\n", "\n">>
  /\ result[M].val.inner = << <<"a">> >>

\* an element with no D, no newline and no blank at either end
CleanElem(e, D) ==
  /\ Count(D, e) = 0
  /\ Count("\n", e) = 0
  /\ e # <<>> => (~Blank(e[1]) /\ ~Blank(e[Len(e)]))

\* the thread holds the scenario's list parsed from one shape and has kept
\* it parsed from the other
HoldsBothShapes ==
  /\ HoldsFreshVec(M)
  /\ kept # None
  /\ kept.result.tag = "Ok"
  /\ IsStdinSource(source[M]) # IsStdinSource(kept.source)
  /\ LET a == IF IsStdinSource(source[M]) THEN kept.call.arg ELSE call[M].arg
         c == IF IsStdinSource(source[M]) THEN input[M].text ELSE kept.input.text
     IN  /\ a = Join(scenario.items, <<scenario.D>>)
         /\ c = LinesText(scenario.items)
  /\ \A i \in 1..Len(scenario.items) : CleanElem(scenario.items[i], scenario.D)

BothShapesAgree ==
  /\ result[M].val.inner = kept.result.val.inner
  /\ result[M].val.is_stdin # kept.result.val.is_stdin

\* C13, as claimed: for every sequence of elements with no D, no newline and
\* no blank at either end, the elements joined by D as an argument and the
\* elements as newline-terminated lines of standard input parse to the same
\* list, differing only in is_stdin.
C13_ShapesAgree == HoldsBothShapes => BothShapesAgree

\* C13, amended: the same, for a sequence that is not empty and whose first
\* and last elements are not empty (and whose joined text is not "-").
C13_ShapesAgreeNonEmptyEnds ==
  (/\ HoldsBothShapes
   /\ scenario.items # <<>>
   /\ scenario.items[1] # <<>>
   /\ scenario.items[Len(scenario.items)] # <<>>
   /\ Join(scenario.items, <<scenario.D>>) # <<"-">>) => BothShapesAgree

C13_Witness ==
  /\ HoldsBothShapes
  /\ scenario.items = << <<"a">>, <<"1">> >>
  /\ scenario.D = "-"
  /\ scenario.T = "String"
  /\ IsStdinSource(source[M])
  /\ result[M].val.inner = << <<"a">>, <<"1">> >>
  /\ kept.call.arg = <<"a", "-", "1">>

\* thread t collects a MaybeStdinVec from a sequence of strings
FromIterStep(t) == ncalls' = ncalls + 1 /\ call'[t].fn = "from_iter"

\* whether T::from_str accepts the string e
Parses(T, e) == T = "String" \/ IsNumber(e)

\* C14: collecting a MaybeStdinVec from a sequence of strings neither reads
\* standard input nor touches the guard, whatever the guard is; it takes an
\* element "-" as text, marks is_stdin false and keeps the elements' order;
\* when an element fails to parse it panics and returns no error value.
C14_FromIterBypasses ==
  [][FromIterStep(M) =>
       LET c == call'[M]
           r == result'[M]
       IN  /\ guard' = guard
           /\ attempts' = attempts
           /\ stdinReads' = stdinReads
           /\ finished' = finished
           /\ IF \A i \in 1..Len(c.items) : Parses(c.T, c.items[i])
                THEN /\ pc'[M] = "idle"
                     /\ r.tag = "Ok"
                     /\ r.kind = "Adapter"
                     /\ ~r.val.is_stdin
                     /\ Len(r.val.inner) = Len(c.items)
                     /\ \A i \in 1..Len(c.items) :
                          r.val.inner[i] = IF c.T = "String" THEN c.items[i]
                                                            ELSE Decimal(c.items[i])
                ELSE /\ pc'[M] = "panicked"
                     /\ r.tag = "Panic"
                     /\ r.tag # "Err"]_vars

\* after standard input was consumed, "-" and "a" are collected as text
C14_Witness ==
  /\ guard
  /\ stdinReads = 1
  /\ call[M].fn = "from_iter"
  /\ call[M].items = <<<<"-">>, <<"a">>>>
  /\ result[M] = Ok("Adapter", Adapter("MaybeStdinVec", <<<<"-">>, <<"a">>>>, FALSE))

\* an element that is no number has ended the thread
C14_Panicked ==
  /\ pc[M] = "panicked"
  /\ call[M].items = <<<<"1">>, <<"a">>>>
  /\ result[M] = Panic("Failed to parse input: invalid digit found in string")

\* the step is thread t's store to the guard
StoreStep(t) == pc[t] = "store" /\ pc'[t] # "store"

\* C15: on every stdin path the guard is checked before standard input is
\* touched: a refused call returns at its check, having read nothing; the
\* stream is read only by a call that passed the check and set the guard
\* itself, so in a sequential run at most one call reads the stream.
C15_CheckBeforeRead ==
  [][/\ (LoadStep(M) /\ guard) =>
          /\ pc'[M] = "idle"
          /\ result'[M].tag = "Err"
          /\ stdinReads' = stdinReads
          /\ finished' = finished
          /\ input'[M] = NoInput
     /\ LoadStep(M) => stdinReads' = stdinReads
     /\ StoreStep(M) => (~guard /\ guard' /\ stdinReads' = stdinReads)
     /\ stdinReads' # stdinReads =>
          /\ pc[M] = "finish"
          /\ guard
          /\ attempts # <<>>
          /\ attempts[Len(attempts)] = "Passed"
          /\ Cardinality(Passes) = 1
          /\ stdinReads = 0
          /\ stdinReads' = 1]_vars

\* read_string read the stream, then get_value was refused with nothing read
C15_Witness ==
  /\ finished = <<"read">>
  /\ stdinReads = 1
  /\ attempts = <<"Passed", "StdInRepeatedUse">>
  /\ pc[M] = "idle"
  /\ call[M].fn = "get_value"
  /\ input[M] = NoInput
  /\ result[M] = Err(StdInRepeatedUse)

\* the step is the return of a from_source that does not touch its Stdin
DirectStep(t) == pc[t] = "direct" /\ pc'[t] # "direct"

\* C16: MaybeStdinFromSource::from_str does not look at the guard itself; a
\* parse comes to a check of the guard only through a from_source that calls
\* Stdin's methods. A parse of "-" whose from_source does not read succeeds
\* with is_stdin true whether or not the guard is set, and leaves the guard
\* and standard input as they were, as often as it is made.
C16_FromStrUnguarded ==
  [][/\ (ncalls' = ncalls + 1 /\ call'[M].fn = "MaybeStdinFromSource") =>
          (pc'[M] = "load" <=> (call'[M].arg = <<"-">> /\ call'[M].T = "Fruits"))
     /\ DirectStep(M) =>
          /\ call[M].fn = "MaybeStdinFromSource"
          /\ call[M].arg = <<"-">>
          /\ guard' = guard
          /\ attempts' = attempts
          /\ stdinReads' = stdinReads
          /\ finished' = finished
          /\ pc'[M] = "idle"
          /\ result'[M] = Ok("Adapter", Adapter("MaybeStdinFromSource", <<"-">>, TRUE))]_vars

\* the third call of the run, after standard input was consumed
C16_Witness ==
  /\ guard
  /\ attempts = <<"Passed">>
  /\ stdinReads = 1
  /\ ncalls = 3
  /\ pc[M] = "idle"
  /\ call[M].fn = "MaybeStdinFromSource"
  /\ call[M].T = "Token"
  /\ result[M].tag = "Ok"
  /\ result[M].val.is_stdin

\* thread t has come back from MaybeStdinVec::from_str
ReturnedVec(t) ==
  /\ pc[t] = "idle"
  /\ call[t].fn = "MaybeStdinVec"
  /\ ret[t] = None
  /\ result[t] # None
  /\ result[t].tag = "Ok" => result[t].kind = "Adapter"

\* C17: a MaybeStdinVec parsed from an argument has one element more than
\* there are D in the argument without the blanks around it: a blank
\* argument gives one empty element (which u32 does not parse, so that no
\* list is returned), a D at the end an empty last element; blank or empty
\* standard input gives the empty list.
C17_CountBySource ==
  \A t \in Threads :
    ReturnedVec(t) =>
      LET core == StripRight(StripLeft(call[t].arg))
      IN  /\ (~IsStdinSource(source[t]) /\ result[t].tag = "Ok") =>
               /\ Len(result[t].val.inner) = Count(call[t].D, core) + 1
               /\ Len(result[t].val.inner) >= 1
               /\ (core # <<>> /\ core[Len(core)] = call[t].D /\ call[t].T = "String")
                    => result[t].val.inner[Len(result[t].val.inner)] = <<>>
          /\ (~IsStdinSource(source[t]) /\ core = <<>>) =>
               IF call[t].T = "String"
                 THEN result[t].tag = "Ok" /\ result[t].val.inner = << <<>> >>
                 ELSE result[t].tag = "Err"
          /\ (/\ IsStdinSource(source[t])
              /\ attempts[Len(attempts)] = "Passed"
              /\ input[t].utf8
              /\ StripLeft(input[t].text) = <<>>) =>
               result[t].tag = "Ok" /\ result[t].val.inner = <<>>

\* a blank argument has given one empty element
C17_Witness ==
  /\ ReturnedVec(M)
  /\ call[M].arg = <<" ", "\n">>
  /\ call[M].T = "String"
  /\ result[M] = Ok("Adapter", Adapter("MaybeStdinVec", << <<>> >>, FALSE))

\* blank standard input has given the empty list
C17_BlankStdin ==
  /\ ReturnedVec(M)
  /\ IsStdinSource(source[M])
  /\ input[M].text = <<" ", "\n">>
  /\ result[M] = Ok("Adapter", Adapter("MaybeStdinVec", <<>>, TRUE))

====
